---- MODULE Spec2Model ----
(***************************************************************************)
(* gonil: an interprocedural symbolic evaluator over go/ssa that reports   *)
(* possible nil pointer dereferences (src/main.go).                        *)
(*                                                                         *)
(* The evaluator is a synchronous recursive descent; it is modelled by     *)
(* recursive operators that thread the state the Go code mutates: the      *)
(* frame's memo map (fr.env), the checker's result list (c.npds) and the   *)
(* backing arrays of the trace slices (append may write in place).         *)
(* The driver loop of check() is the state machine: one action per         *)
(* iteration of `for fn := range ssautil.AllFunctions(prog)`.              *)
(***************************************************************************)
EXTENDS Integers, Sequences, FiniteSets, TLC

\* ------------------------------------------------------------------------
\* The SSA program consumed by the evaluator (golang.org/x/tools/go/ssa).
\* A value or instruction is a record; its id is its index in prog.vals.
\* Id 0 is Go's nil ssa.Value.
\* ------------------------------------------------------------------------

V(kind) ==
  [kind |-> kind, op |-> "", X |-> 0, Y |-> 0, mode |-> "", fn |-> 0,
   args |-> <<>>, bindings |-> <<>>, isnil |-> FALSE, ckind |-> "", lit |-> 0,
   typ |-> "other", idx |-> 0, commaok |-> FALSE, results |-> <<>>]

\* typ is the static type class of the value: "ptr", "map", "bool", "int",
\* "string", "tuple", "iface", "func", "other".
iAlloc           == [V("Alloc") EXCEPT !.typ = "ptr"]
iNil(t)          == [V("Const") EXCEPT !.isnil = TRUE, !.typ = t]
iBool(b)         == [V("Const") EXCEPT !.ckind = "Bool", !.lit = IF b THEN 1 ELSE 0, !.typ = "bool"]
iInt(n)          == [V("Const") EXCEPT !.ckind = "Int", !.lit = n, !.typ = "int"]
\* a string constant is represented by its length
iStr(n)          == [V("Const") EXCEPT !.ckind = "String", !.lit = n, !.typ = "string"]
iBinOp(o, x, y, t) == [V("BinOp") EXCEPT !.op = o, !.X = x, !.Y = y, !.typ = t]
iFieldAddr(x)    == [V("FieldAddr") EXCEPT !.X = x, !.typ = "ptr"]
iLoad(x, t)      == [V("UnOp") EXCEPT !.op = "MUL", !.X = x, !.typ = t]
iUnOp(o, x, t)   == [V("UnOp") EXCEPT !.op = o, !.X = x, !.typ = t]
iParam(t)        == [V("Parameter") EXCEPT !.typ = t]
iGlobal          == [V("Global") EXCEPT !.typ = "ptr"]
iLookup(x, t)    == [V("Lookup") EXCEPT !.X = x, !.typ = t]
iLookupOk(x)     == [V("Lookup") EXCEPT !.X = x, !.typ = "tuple", !.commaok = TRUE]
iExtract(t, i, ty) == [V("Extract") EXCEPT !.X = t, !.idx = i, !.typ = ty]
iTypeAssert(x, t) == [V("TypeAssert") EXCEPT !.X = x, !.typ = t]
iNext(x)         == [V("Next") EXCEPT !.X = x, !.typ = "tuple"]
\* Call.Common(): Value is a *ssa.Function (mode "Function"), a *ssa.MakeClosure
\* (mode "MakeClosure": fn is its Fn, bindings its Bindings), an interface
\* method (mode "Invoke") or any other value X (mode "Value").
iCall(f, a, t)   == [V("Call") EXCEPT !.mode = "Function", !.fn = f, !.args = a, !.typ = t]
iCallClosure(f, a, b, t) ==
  [V("Call") EXCEPT !.mode = "MakeClosure", !.fn = f, !.args = a, !.bindings = b, !.typ = t]
iInvoke(x, a, t) == [V("Call") EXCEPT !.mode = "Invoke", !.X = x, !.args = a, !.typ = t]
iCallValue(x, a, t) == [V("Call") EXCEPT !.mode = "Value", !.X = x, !.args = a, !.typ = t]
\* instructions that are not values
iStore(x, y)     == [V("Store") EXCEPT !.X = x, !.Y = y]
iIf(c)           == [V("If") EXCEPT !.X = c]
iJump            == V("Jump")
iPanic           == V("Panic")
iReturn(rs)      == [V("Return") EXCEPT !.results = rs]
iOther           == V("Unreachable")

Block(instrs, succs) == [instrs |-> instrs, succs |-> succs]
\* a function without blocks is external (fn.Blocks == nil)
Func(params, blks) == [params |-> params, blocks |-> blks]


\* ------------------------------------------------------------------------
\* AbstractState (type phi []*value).  A Go slice is nil or not; the code
\* tests `xx == nil`, so an empty non-nil phi differs from the nil phi.
\* A *value keeps the zero and toZero flags; typ stands for val.Type(),
\* "none" when val is the nil interface.
\* ------------------------------------------------------------------------

value(typ, zero, toZero) == [typ |-> typ, zero |-> zero, toZero |-> toZero]

newValue(typ, zero) == value(typ, zero, FALSE)

NilPhi == [isnil |-> TRUE, alts |-> <<>>]

MkPhi(alts) == [isnil |-> FALSE, alts |-> alts]

\* `var ret phi` followed by zero or more ret = append(ret, ...)
RetPhi(alts) == IF alts = <<>> THEN NilPhi ELSE MkPhi(alts)

addEdge(edges, typ, guaranteedZero) ==
  IF ~guaranteedZero
    THEN edges \o <<newValue(typ, FALSE), newValue(typ, TRUE)>>
    ELSE edges \o <<newValue(typ, TRUE)>>

\* ------------------------------------------------------------------------
\* Trace slices ([]*instruction).  A slice is a window (arr, len) on a
\* backing array of the heap; its capacity is the array's length.  Arrays
\* are never freed during a pass.
\* ------------------------------------------------------------------------

NilSlice == [arr |-> 0, len |-> 0]

Cap(h, s) == IF s.arr = 0 THEN 0 ELSE Len(h[s.arr])

Elems(h, s) == [i \in 1..s.len |-> h[s.arr][i]]

\* capacity chosen by the gc runtime when append must reallocate a slice of
\* pointers: the needed length for an empty slice, else amortised doubling
growslice(oldcap, needed) ==
  IF oldcap = 0 THEN needed
  ELSE IF 2 * oldcap >= needed THEN 2 * oldcap ELSE needed

\* Go's built-in append(s, x): in place when capacity allows
append(h, s, x) ==
  IF s.len < Cap(h, s)
    THEN [heap |-> [h EXCEPT ![s.arr][s.len + 1] = x],
          s    |-> [arr |-> s.arr, len |-> s.len + 1]]
    ELSE LET newcap == growslice(Cap(h, s), s.len + 1)
             arr == [i \in 1..newcap |->
                       IF i <= s.len THEN h[s.arr][i]
                       ELSE IF i = s.len + 1 THEN x ELSE 0]
         IN [heap |-> Append(h, arr),
             s    |-> [arr |-> Len(h) + 1, len |-> s.len + 1]]


\* ------------------------------------------------------------------------
\* State of the model
\* ------------------------------------------------------------------------
VARIABLES
  prog,     \* the program under analysis (index in Programs), fixed by Init
  todo,     \* functions of ssautil.AllFunctions(prog) the driver has not visited
  pc,       \* "run": in the driver loop; "done": check returned c.npds;
            \* "panicked": a Go run-time panic ended the process
  npds,     \* checker.npds: the result list, a sequence of trace slices
  heap,     \* backing arrays of the trace slices still referenced
  log,      \* history: for each call of report, frame.tr + [instr] as it was then
  visited,  \* history: FieldAddr instructions evaluated and calls entered
  blocks,   \* history: <<function, block, call depth>> of the blocks walked
  trail     \* history: what the evaluations that returned did (see NoTrail)

vars == <<prog, todo, pc, npds, heap, log, visited, blocks, trail>>

\* ------------------------------------------------------------------------
\* The programs analysed
\* ------------------------------------------------------------------------

(* src/unnamed/part_000 (testdata/testdata.go), as go/ssa builds it:
   func ayy()          { a := &A{X: 5}; _ = a.X }
   func npd()          { var a *A; _ = a.X; _ = ( *A)(nil).X }
   func noNPD()        { a := new(A); _ = a.X; b := &A{}; _ = b.X; c := A{}; _ = c.X }
   func canReturnNil(ok bool) *A { if ok { return new(A) }; return nil }
   func npdInterProc() { a := canReturnNil(true); _ = a.X }
   func npdGuarded()   { a := canReturnNil(false); if a == nil { return }; _ = a.X }
   func npdNilArg()    { f := func(a *A) { _ = a.X }; f(nil) }
*)
PTestdata ==
  [vals |-> <<
     iAlloc,                                       \* 1: ayy: new A (complit)
     iFieldAddr(1),                                \* 2: ayy: &t0.X
     iInt(5),                                      \* 3: ayy: 5:int
     iStore(2, 3),                                 \* 4: ayy: *t1 = 5
     iFieldAddr(1),                                \* 5: ayy: &t0.X
     iLoad(5, "int"),                              \* 6: ayy: *t2
     iReturn(<<>>),                                \* 7: ayy: return
     iNil("ptr"),                                  \* 8: npd: nil:*A (a)
     iFieldAddr(8),                                \* 9: npd: &a.X
     iLoad(9, "int"),                              \* 10: npd: *t0
     iNil("ptr"),                                  \* 11: npd: nil:*A
     iFieldAddr(11),                               \* 12: npd: &( *A)(nil).X
     iLoad(12, "int"),                             \* 13: npd: *t2
     iReturn(<<>>),                                \* 14: npd: return
     iAlloc,                                       \* 15: noNPD: new A (a)
     iFieldAddr(15),                               \* 16: noNPD: &a.X
     iAlloc,                                       \* 17: noNPD: new A (complit b)
     iFieldAddr(17),                               \* 18: noNPD: &b.X
     iAlloc,                                       \* 19: noNPD: local A (c)
     iFieldAddr(19),                               \* 20: noNPD: &c.X
     iReturn(<<>>),                                \* 21: noNPD: return
     iParam("bool"),                               \* 22: canReturnNil: parameter ok
     iIf(22),                                      \* 23: canReturnNil: if ok
     iAlloc,                                       \* 24: canReturnNil: new A
     iReturn(<<24>>),                              \* 25: canReturnNil: return t0
     iNil("ptr"),                                  \* 26: canReturnNil: nil:*A
     iReturn(<<26>>),                              \* 27: canReturnNil: return nil
     iBool(TRUE),                                  \* 28: npdInterProc: true:bool
     iCall(4, <<28>>, "ptr"),                      \* 29: npdInterProc: canReturnNil(true)
     iFieldAddr(29),                               \* 30: npdInterProc: &a.X
     iReturn(<<>>),                                \* 31: npdInterProc: return
     iBool(FALSE),                                 \* 32: npdGuarded: false:bool
     iCall(4, <<32>>, "ptr"),                      \* 33: npdGuarded: canReturnNil(false)
     iNil("ptr"),                                  \* 34: npdGuarded: nil:*A
     iBinOp("EQL", 33, 34, "bool"),                \* 35: npdGuarded: a == nil
     iIf(35),                                      \* 36: npdGuarded: if a == nil
     iReturn(<<>>),                                \* 37: npdGuarded: return
     iFieldAddr(33),                               \* 38: npdGuarded: &a.X
     iReturn(<<>>),                                \* 39: npdGuarded: return
     iNil("ptr"),                                  \* 40: npdNilArg: nil:*A
     iCall(8, <<40>>, "other"),                    \* 41: npdNilArg: npdNilArg$1(nil)
     iReturn(<<>>),                                \* 42: npdNilArg: return
     iParam("ptr"),                                \* 43: npdNilArg$1: parameter a
     iFieldAddr(43),                               \* 44: npdNilArg$1: &a.X
     iReturn(<<>>)                                 \* 45: npdNilArg$1: return
   >>,
   funcs |-> <<
     \* 1: ayy
     Func(<<>>, <<Block(<<1, 2, 4, 5, 6, 7>>, <<>>)>>),
     \* 2: npd
     Func(<<>>, <<Block(<<9, 10, 12, 13, 14>>, <<>>)>>),
     \* 3: noNPD
     Func(<<>>, <<Block(<<15, 16, 17, 18, 19, 20, 21>>, <<>>)>>),
     \* 4: canReturnNil
     Func(<<22>>, <<Block(<<23>>, <<2, 3>>), Block(<<24, 25>>, <<>>), Block(<<27>>, <<>>)>>),
     \* 5: npdInterProc
     Func(<<>>, <<Block(<<29, 30, 31>>, <<>>)>>),
     \* 6: npdGuarded
     Func(<<>>, <<Block(<<33, 35, 36>>, <<2, 3>>), Block(<<37>>, <<>>), Block(<<38, 39>>, <<>>)>>),
     \* 7: npdNilArg
     Func(<<>>, <<Block(<<41, 42>>, <<>>)>>),
     \* 8: npdNilArg$1
     Func(<<43>>, <<Block(<<44, 45>>, <<>>)>>)
   >>]

(* src/unnamed/part_001, lines 48-95 (an earlier testdata.go; A has a field a *A):
   func npd()       { _ = ( *A)(nil).a.X; _ = new(A).a.X }
   func canReturnNil(ok bool) *A { if ok { return new(A) }; return nil }
   func expectNonNilParam(a *A) { _ = a.X }
   func guarded()   { a := canReturnNil(false); if a != nil { _ = a.X }
                      if a == nil { return }; _ = a.X }
   func nilArg()    { expectNonNilParam(nil) }
*)
PVariants ==
  [vals |-> <<
     iNil("ptr"),                                  \* 1: npd: nil:*A
     iFieldAddr(1),                                \* 2: npd: &( *A)(nil).a
     iLoad(2, "ptr"),                              \* 3: npd: *t0
     iFieldAddr(3),                                \* 4: npd: &t1.X
     iLoad(4, "int"),                              \* 5: npd: *t2
     iAlloc,                                       \* 6: npd: new A
     iFieldAddr(6),                                \* 7: npd: &new(A).a
     iLoad(7, "ptr"),                              \* 8: npd: *t5
     iFieldAddr(8),                                \* 9: npd: &t6.X
     iLoad(9, "int"),                              \* 10: npd: *t7
     iReturn(<<>>),                                \* 11: npd: return
     iParam("bool"),                               \* 12: canReturnNil: parameter ok
     iIf(12),                                      \* 13: canReturnNil: if ok
     iAlloc,                                       \* 14: canReturnNil: new A
     iReturn(<<14>>),                              \* 15: canReturnNil: return t14
     iNil("ptr"),                                  \* 16: canReturnNil: nil:*A
     iReturn(<<16>>),                              \* 17: canReturnNil: return t16
     iParam("ptr"),                                \* 18: expectNonNilParam: parameter a
     iFieldAddr(18),                               \* 19: expectNonNilParam: &a.X
     iReturn(<<>>),                                \* 20: expectNonNilParam: return
     iBool(FALSE),                                 \* 21: guarded: false:bool
     iCall(2, <<21>>, "ptr"),                      \* 22: guarded: canReturnNil(false)
     iNil("ptr"),                                  \* 23: guarded: nil:*A
     iBinOp("NEQ", 22, 23, "bool"),                \* 24: guarded: a != nil
     iIf(24),                                      \* 25: guarded: if a != nil
     iFieldAddr(22),                               \* 26: guarded: &a.X (inside if a != nil)
     iJump,                                        \* 27: guarded: jump
     iNil("ptr"),                                  \* 28: guarded: nil:*A
     iBinOp("EQL", 22, 28, "bool"),                \* 29: guarded: a == nil
     iIf(29),                                      \* 30: guarded: if a == nil
     iReturn(<<>>),                                \* 31: guarded: return
     iFieldAddr(22),                               \* 32: guarded: &a.X (after the early return)
     iReturn(<<>>),                                \* 33: guarded: return
     iNil("ptr"),                                  \* 34: nilArg: nil:*A
     iCall(3, <<34>>, "other"),                    \* 35: nilArg: expectNonNilParam(nil)
     iReturn(<<>>)                                 \* 36: nilArg: return
   >>,
   funcs |-> <<
     \* 1: npd
     Func(<<>>, <<Block(<<2, 3, 4, 5, 6, 7, 8, 9, 10, 11>>, <<>>)>>),
     \* 2: canReturnNil
     Func(<<12>>, <<Block(<<13>>, <<2, 3>>), Block(<<14, 15>>, <<>>), Block(<<17>>, <<>>)>>),
     \* 3: expectNonNilParam
     Func(<<18>>, <<Block(<<19, 20>>, <<>>)>>),
     \* 4: guarded
     Func(<<>>, <<Block(<<22, 24, 25>>, <<2, 3>>), Block(<<26, 27>>, <<3>>), Block(<<29, 30>>, <<4, 5>>), Block(<<31>>, <<>>), Block(<<32, 33>>, <<>>)>>),
     \* 5: nilArg
     Func(<<>>, <<Block(<<35, 36>>, <<>>)>>)
   >>]

(* The three result states of a callee, consumed with and without a guard:
   func canReturnNil(ok bool) *A { if ok { return new(A) }; return nil }
   func maybeNil(n int) *A       { if n < 0 { return nil }; return new(A) }
   func useNil()        { a := canReturnNil(false); _ = a.X }
   func useBoth()       { a := maybeNil(1); _ = a.X }
   func guardedNonNil() { a := canReturnNil(true); if a != nil { _ = a.X } }
   func useNonNil()     { a := canReturnNil(true); _ = a.X }
*)
PInterproc ==
  [vals |-> <<
     iParam("bool"),                               \* 1: canReturnNil: parameter ok
     iIf(1),                                       \* 2: canReturnNil: if ok
     iAlloc,                                       \* 3: canReturnNil: new A
     iReturn(<<3>>),                               \* 4: canReturnNil: return t3
     iNil("ptr"),                                  \* 5: canReturnNil: nil:*A
     iReturn(<<5>>),                               \* 6: canReturnNil: return t5
     iParam("int"),                                \* 7: maybeNil: parameter n
     iInt(0),                                      \* 8: maybeNil: 0:int
     iBinOp("LSS", 7, 8, "bool"),                  \* 9: maybeNil: n < 0
     iIf(9),                                       \* 10: maybeNil: if n < 0
     iNil("ptr"),                                  \* 11: maybeNil: nil:*A
     iReturn(<<11>>),                              \* 12: maybeNil: return t11
     iAlloc,                                       \* 13: maybeNil: new A
     iReturn(<<13>>),                              \* 14: maybeNil: return t13
     iBool(FALSE),                                 \* 15: useNil: false:bool
     iCall(1, <<15>>, "ptr"),                      \* 16: useNil: canReturnNil(false)
     iFieldAddr(16),                               \* 17: useNil: &a.X
     iReturn(<<>>),                                \* 18: useNil: return
     iInt(1),                                      \* 19: useBoth: 1:int
     iCall(2, <<19>>, "ptr"),                      \* 20: useBoth: maybeNil(1)
     iFieldAddr(20),                               \* 21: useBoth: &a.X
     iReturn(<<>>),                                \* 22: useBoth: return
     iBool(TRUE),                                  \* 23: guardedNonNil: true:bool
     iCall(1, <<23>>, "ptr"),                      \* 24: guardedNonNil: canReturnNil(true)
     iNil("ptr"),                                  \* 25: guardedNonNil: nil:*A
     iBinOp("NEQ", 24, 25, "bool"),                \* 26: guardedNonNil: a != nil
     iIf(26),                                      \* 27: guardedNonNil: if a != nil
     iFieldAddr(24),                               \* 28: guardedNonNil: &a.X
     iJump,                                        \* 29: guardedNonNil: jump
     iReturn(<<>>),                                \* 30: guardedNonNil: return
     iBool(TRUE),                                  \* 31: useNonNil: true:bool
     iCall(1, <<31>>, "ptr"),                      \* 32: useNonNil: canReturnNil(true)
     iFieldAddr(32),                               \* 33: useNonNil: &a.X
     iReturn(<<>>)                                 \* 34: useNonNil: return
   >>,
   funcs |-> <<
     \* 1: canReturnNil
     Func(<<1>>, <<Block(<<2>>, <<2, 3>>), Block(<<3, 4>>, <<>>), Block(<<6>>, <<>>)>>),
     \* 2: maybeNil
     Func(<<7>>, <<Block(<<9, 10>>, <<2, 3>>), Block(<<12>>, <<>>), Block(<<13, 14>>, <<>>)>>),
     \* 3: useNil
     Func(<<>>, <<Block(<<16, 17, 18>>, <<>>)>>),
     \* 4: useBoth
     Func(<<>>, <<Block(<<20, 21, 22>>, <<>>)>>),
     \* 5: guardedNonNil
     Func(<<>>, <<Block(<<24, 26, 27>>, <<2, 3>>), Block(<<28, 29>>, <<3>>), Block(<<30>>, <<>>)>>),
     \* 6: useNonNil
     Func(<<>>, <<Block(<<32, 33, 34>>, <<>>)>>)
   >>]

(* A guarded access whose callee result has both alternatives:
   func maybeNil(n int) *A { if n < 0 { return nil }; return new(A) }
   func guardedBoth()      { a := maybeNil(1); if a != nil { _ = a.X } }
   func guardedBothEarly() { a := maybeNil(1); if a == nil { return }; _ = a.X }
   func fresh()            { a := new(A); _ = a.X }
*)
PGuardedBoth ==
  [vals |-> <<
     iParam("int"),                                \* 1: maybeNil: parameter n
     iInt(0),                                      \* 2: maybeNil: 0:int
     iBinOp("LSS", 1, 2, "bool"),                  \* 3: maybeNil: n < 0
     iIf(3),                                       \* 4: maybeNil: if n < 0
     iNil("ptr"),                                  \* 5: maybeNil: nil:*A
     iReturn(<<5>>),                               \* 6: maybeNil: return t5
     iAlloc,                                       \* 7: maybeNil: new A
     iReturn(<<7>>),                               \* 8: maybeNil: return t7
     iInt(1),                                      \* 9: guardedBoth: 1:int
     iCall(1, <<9>>, "ptr"),                       \* 10: guardedBoth: maybeNil(1)
     iNil("ptr"),                                  \* 11: guardedBoth: nil:*A
     iBinOp("NEQ", 10, 11, "bool"),                \* 12: guardedBoth: a != nil
     iIf(12),                                      \* 13: guardedBoth: if a != nil
     iFieldAddr(10),                               \* 14: guardedBoth: &a.X
     iJump,                                        \* 15: guardedBoth: jump
     iReturn(<<>>),                                \* 16: guardedBoth: return
     iInt(1),                                      \* 17: guardedBothEarly: 1:int
     iCall(1, <<17>>, "ptr"),                      \* 18: guardedBothEarly: maybeNil(1)
     iNil("ptr"),                                  \* 19: guardedBothEarly: nil:*A
     iBinOp("EQL", 18, 19, "bool"),                \* 20: guardedBothEarly: a == nil
     iIf(20),                                      \* 21: guardedBothEarly: if a == nil
     iReturn(<<>>),                                \* 22: guardedBothEarly: return
     iFieldAddr(18),                               \* 23: guardedBothEarly: &a.X
     iReturn(<<>>),                                \* 24: guardedBothEarly: return
     iAlloc,                                       \* 25: fresh: new A
     iFieldAddr(25),                               \* 26: fresh: &a.X
     iReturn(<<>>)                                 \* 27: fresh: return
   >>,
   funcs |-> <<
     \* 1: maybeNil
     Func(<<1>>, <<Block(<<3, 4>>, <<2, 3>>), Block(<<6>>, <<>>), Block(<<7, 8>>, <<>>)>>),
     \* 2: guardedBoth
     Func(<<>>, <<Block(<<10, 12, 13>>, <<2, 3>>), Block(<<14, 15>>, <<3>>), Block(<<16>>, <<>>)>>),
     \* 3: guardedBothEarly
     Func(<<>>, <<Block(<<18, 20, 21>>, <<2, 3>>), Block(<<22>>, <<>>), Block(<<23, 24>>, <<>>)>>),
     \* 4: fresh
     Func(<<>>, <<Block(<<25, 26, 27>>, <<>>)>>)
   >>]

(* A nil argument passed through a closure with a bound free variable:
   func nilArgClosure() { x := new(A); g := func(a *A) { _ = a.X; _ = x.X }; g(nil) }
   func nilArgDirect()  { expectNonNilParam(nil) }
   func expectNonNilParam(a *A) { _ = a.X }
*)
PClosure ==
  [vals |-> <<
     iAlloc,                                       \* 1: nilArgClosure: new *A (x, captured)
     iAlloc,                                       \* 2: nilArgClosure: new A
     iStore(1, 2),                                 \* 3: nilArgClosure: *x = t1
     iNil("ptr"),                                  \* 4: nilArgClosure: nil:*A
     iCallClosure(2, <<4>>, <<1>>, "other"),       \* 5: nilArgClosure: g(nil), g = make closure nilArgClosure$1 [x]
     iReturn(<<>>),                                \* 6: nilArgClosure: return
     iParam("ptr"),                                \* 7: nilArgClosure$1: parameter a
     [V("FreeVar") EXCEPT !.typ = "ptr"],          \* 8: nilArgClosure$1: free variable x
     iFieldAddr(7),                                \* 9: nilArgClosure$1: &a.X
     iLoad(8, "ptr"),                              \* 10: nilArgClosure$1: *x
     iFieldAddr(10),                               \* 11: nilArgClosure$1: &t1.X
     iReturn(<<>>),                                \* 12: nilArgClosure$1: return
     iNil("ptr"),                                  \* 13: nilArgDirect: nil:*A
     iCall(4, <<13>>, "other"),                    \* 14: nilArgDirect: expectNonNilParam(nil)
     iReturn(<<>>),                                \* 15: nilArgDirect: return
     iParam("ptr"),                                \* 16: expectNonNilParam: parameter a
     iFieldAddr(16),                               \* 17: expectNonNilParam: &a.X
     iReturn(<<>>)                                 \* 18: expectNonNilParam: return
   >>,
   funcs |-> <<
     \* 1: nilArgClosure
     Func(<<>>, <<Block(<<1, 2, 3, 5, 6>>, <<>>)>>),
     \* 2: nilArgClosure$1
     Func(<<7>>, <<Block(<<9, 10, 11, 12>>, <<>>)>>),
     \* 3: nilArgDirect
     Func(<<>>, <<Block(<<14, 15>>, <<>>)>>),
     \* 4: expectNonNilParam
     Func(<<16>>, <<Block(<<17, 18>>, <<>>)>>)
   >>]

(* Blocks behind a branch on a parameter, and accesses in a call context:
   func g()          { h(true) }
   func h(ok bool)   { if ok { f(nil) } }
   func f(p *A)      { _ = p.X }
   func k(ok bool)   { if ok { _ = ( *A)(nil).X } }     // never called
   func fresh()      { a := new(A); _ = a.X }
   func callsFresh() { fresh() }
*)
PNested ==
  [vals |-> <<
     iBool(TRUE),                                  \* 1: g: true:bool
     iCall(2, <<1>>, "other"),                     \* 2: g: h(true)
     iReturn(<<>>),                                \* 3: g: return
     iParam("bool"),                               \* 4: h: parameter ok
     iIf(4),                                       \* 5: h: if ok
     iNil("ptr"),                                  \* 6: h: nil:*A
     iCall(3, <<6>>, "other"),                     \* 7: h: f(nil)
     iJump,                                        \* 8: h: jump
     iReturn(<<>>),                                \* 9: h: return
     iParam("ptr"),                                \* 10: f: parameter p
     iFieldAddr(10),                               \* 11: f: &p.X
     iReturn(<<>>),                                \* 12: f: return
     iParam("bool"),                               \* 13: k: parameter ok
     iIf(13),                                      \* 14: k: if ok
     iNil("ptr"),                                  \* 15: k: nil:*A
     iFieldAddr(15),                               \* 16: k: &( *A)(nil).X
     iJump,                                        \* 17: k: jump
     iReturn(<<>>),                                \* 18: k: return
     iAlloc,                                       \* 19: fresh: new A
     iFieldAddr(19),                               \* 20: fresh: &a.X
     iReturn(<<>>),                                \* 21: fresh: return
     iCall(5, <<>>, "other"),                      \* 22: callsFresh: fresh()
     iReturn(<<>>)                                 \* 23: callsFresh: return
   >>,
   funcs |-> <<
     \* 1: g
     Func(<<>>, <<Block(<<2, 3>>, <<>>)>>),
     \* 2: h
     Func(<<4>>, <<Block(<<5>>, <<2, 3>>), Block(<<7, 8>>, <<3>>), Block(<<9>>, <<>>)>>),
     \* 3: f
     Func(<<10>>, <<Block(<<11, 12>>, <<>>)>>),
     \* 4: k
     Func(<<13>>, <<Block(<<14>>, <<2, 3>>), Block(<<16, 17>>, <<3>>), Block(<<18>>, <<>>)>>),
     \* 5: fresh
     Func(<<>>, <<Block(<<19, 20, 21>>, <<>>)>>),
     \* 6: callsFresh
     Func(<<>>, <<Block(<<22, 23>>, <<>>)>>)
   >>]

(* Faults whose instruction is evaluated more than once:
   func bad() *A   { _ = ( *A)(nil).X; return new(A) }
   func user()     { a := bad(); _ = a.X }
   func join()     { a := new(A); b := new(A); if a.X < b.X { }; _ = ( *A)(nil).X }
   func retfa() *int { return &( *A)(nil).X }
   func chain()    { var x *B; _ = x.a.X }                 // type B struct { a *A }
*)
PDups ==
  [vals |-> <<
     iNil("ptr"),                                  \* 1: bad: nil:*A
     iFieldAddr(1),                                \* 2: bad: &( *A)(nil).X
     iAlloc,                                       \* 3: bad: new A
     iReturn(<<3>>),                               \* 4: bad: return t3
     iCall(1, <<>>, "ptr"),                        \* 5: user: bad()
     iFieldAddr(5),                                \* 6: user: &a.X
     iReturn(<<>>),                                \* 7: user: return
     iAlloc,                                       \* 8: join: new A (a)
     iAlloc,                                       \* 9: join: new A (b)
     iFieldAddr(8),                                \* 10: join: &a.X
     iLoad(10, "int"),                             \* 11: join: *t2
     iFieldAddr(9),                                \* 12: join: &b.X
     iLoad(12, "int"),                             \* 13: join: *t4
     iBinOp("LSS", 11, 13, "bool"),                \* 14: join: a.X < b.X
     iIf(14),                                      \* 15: join: if a.X < b.X
     iJump,                                        \* 16: join: jump
     iNil("ptr"),                                  \* 17: join: nil:*A
     iFieldAddr(17),                               \* 18: join: &( *A)(nil).X
     iReturn(<<>>),                                \* 19: join: return
     iNil("ptr"),                                  \* 20: retfa: nil:*A
     iFieldAddr(20),                               \* 21: retfa: &( *A)(nil).X
     iReturn(<<21>>),                              \* 22: retfa: return t21
     iNil("ptr"),                                  \* 23: chain: nil:*B (x)
     iFieldAddr(23),                               \* 24: chain: &x.a
     iLoad(24, "ptr"),                             \* 25: chain: *t0
     iFieldAddr(25),                               \* 26: chain: &t1.X
     iLoad(26, "int"),                             \* 27: chain: *t2
     iReturn(<<>>)                                 \* 28: chain: return
   >>,
   funcs |-> <<
     \* 1: bad
     Func(<<>>, <<Block(<<2, 3, 4>>, <<>>)>>),
     \* 2: user
     Func(<<>>, <<Block(<<5, 6, 7>>, <<>>)>>),
     \* 3: join
     Func(<<>>, <<Block(<<8, 9, 10, 11, 12, 13, 14, 15>>, <<2, 3>>), Block(<<16>>, <<3>>), Block(<<18, 19>>, <<>>)>>),
     \* 4: retfa
     Func(<<>>, <<Block(<<21, 22>>, <<>>)>>),
     \* 5: chain
     Func(<<>>, <<Block(<<24, 25, 26, 27, 28>>, <<>>)>>)
   >>]

(* Operand states the transfer functions index or assert on:
   func ta(i interface{})   { _ = i.( *A).X }
   func strIndex()          { s := "abc"; if s[0] == 'a' { } }
   func pick(n int) map[int]*A { if n < 0 { panic("neg") }; panic("todo") }
   func emptyLookup()       { _ = pick(1)[0].X }
   func fresh()             { a := new(A); _ = a.X }
*)
PPanics ==
  [vals |-> <<
     iParam("iface"),                              \* 1: ta: parameter i
     iTypeAssert(1, "ptr"),                        \* 2: ta: typeassert i.( *A)
     iFieldAddr(2),                                \* 3: ta: &t0.X
     iReturn(<<>>),                                \* 4: ta: return
     iStr(3),                                      \* 5: strIndex: "abc":string
     iInt(0),                                      \* 6: strIndex: 0:int
     iLookup(5, "int"),                            \* 7: strIndex: s[0]
     iInt(97),                                     \* 8: strIndex: 97:uint8
     iBinOp("EQL", 7, 8, "bool"),                  \* 9: strIndex: s[0] == 'a'
     iIf(9),                                       \* 10: strIndex: if s[0] == 'a'
     iJump,                                        \* 11: strIndex: jump
     iReturn(<<>>),                                \* 12: strIndex: return
     iParam("int"),                                \* 13: pick: parameter n
     iInt(0),                                      \* 14: pick: 0:int
     iBinOp("LSS", 13, 14, "bool"),                \* 15: pick: n < 0
     iIf(15),                                      \* 16: pick: if n < 0
     iPanic,                                       \* 17: pick: panic("neg")
     iPanic,                                       \* 18: pick: panic("todo")
     iInt(1),                                      \* 19: emptyLookup: 1:int
     iCall(3, <<19>>, "map"),                      \* 20: emptyLookup: pick(1)
     iLookup(20, "ptr"),                           \* 21: emptyLookup: t0[0]
     iFieldAddr(21),                               \* 22: emptyLookup: &t1.X
     iReturn(<<>>),                                \* 23: emptyLookup: return
     iAlloc,                                       \* 24: fresh: new A
     iFieldAddr(24),                               \* 25: fresh: &a.X
     iReturn(<<>>)                                 \* 26: fresh: return
   >>,
   funcs |-> <<
     \* 1: ta
     Func(<<1>>, <<Block(<<2, 3, 4>>, <<>>)>>),
     \* 2: strIndex
     Func(<<>>, <<Block(<<7, 9, 10>>, <<2, 3>>), Block(<<11>>, <<3>>), Block(<<12>>, <<>>)>>),
     \* 3: pick
     Func(<<13>>, <<Block(<<15, 16>>, <<2, 3>>), Block(<<17>>, <<>>), Block(<<18>>, <<>>)>>),
     \* 4: emptyLookup
     Func(<<>>, <<Block(<<20, 21, 22, 23>>, <<>>)>>),
     \* 5: fresh
     Func(<<>>, <<Block(<<24, 25, 26>>, <<>>)>>)
   >>]

(* Actual arguments of every shape, bound in a frame that was itself created
 for a call (type B struct { a *A }):
   func top()            { mid(nil) }
   func mid(p *A)        { leaf(p) }
   func leaf(a *A)       { _ = a.X }
   func viaCall()        { leaf(canReturnNil(false)) }
   func canReturnNil(ok bool) *A { if ok { return new(A) }; return nil }
   func topB()           { fromField(new(B)) }
   func fromField(q *B)  { leaf(q.a) }
*)
PForward ==
  [vals |-> <<
     iNil("ptr"),                                  \* 1: top: nil:*A
     iCall(2, <<1>>, "other"),                     \* 2: top: mid(nil)
     iReturn(<<>>),                                \* 3: top: return
     iParam("ptr"),                                \* 4: mid: parameter p
     iCall(3, <<4>>, "other"),                     \* 5: mid: leaf(p)
     iReturn(<<>>),                                \* 6: mid: return
     iParam("ptr"),                                \* 7: leaf: parameter a
     iFieldAddr(7),                                \* 8: leaf: &a.X
     iReturn(<<>>),                                \* 9: leaf: return
     iBool(FALSE),                                 \* 10: viaCall: false:bool
     iCall(5, <<10>>, "ptr"),                      \* 11: viaCall: canReturnNil(false)
     iCall(3, <<11>>, "other"),                    \* 12: viaCall: leaf(t0)
     iReturn(<<>>),                                \* 13: viaCall: return
     iParam("bool"),                               \* 14: canReturnNil: parameter ok
     iIf(14),                                      \* 15: canReturnNil: if ok
     iAlloc,                                       \* 16: canReturnNil: new A
     iReturn(<<16>>),                              \* 17: canReturnNil: return t16
     iNil("ptr"),                                  \* 18: canReturnNil: nil:*A
     iReturn(<<18>>),                              \* 19: canReturnNil: return t18
     iAlloc,                                       \* 20: topB: new B
     iCall(7, <<20>>, "other"),                    \* 21: topB: fromField(t0)
     iReturn(<<>>),                                \* 22: topB: return
     iParam("ptr"),                                \* 23: fromField: parameter q
     iFieldAddr(23),                               \* 24: fromField: &q.a
     iLoad(24, "ptr"),                             \* 25: fromField: *t0
     iCall(3, <<25>>, "other"),                    \* 26: fromField: leaf(t1)
     iReturn(<<>>)                                 \* 27: fromField: return
   >>,
   funcs |-> <<
     \* 1: top
     Func(<<>>, <<Block(<<2, 3>>, <<>>)>>),
     \* 2: mid
     Func(<<4>>, <<Block(<<5, 6>>, <<>>)>>),
     \* 3: leaf
     Func(<<7>>, <<Block(<<8, 9>>, <<>>)>>),
     \* 4: viaCall
     Func(<<>>, <<Block(<<11, 12, 13>>, <<>>)>>),
     \* 5: canReturnNil
     Func(<<14>>, <<Block(<<15>>, <<2, 3>>), Block(<<16, 17>>, <<>>), Block(<<19>>, <<>>)>>),
     \* 6: topB
     Func(<<>>, <<Block(<<20, 21, 22>>, <<>>)>>),
     \* 7: fromField
     Func(<<23>>, <<Block(<<24, 25, 26, 27>>, <<>>)>>)
   >>]

(* Pointer loads whose value is used, over every state of the operand:
   var g *int
   func derefNil() int    { var p *int; return *p }
   func derefNew() int    { p := new(int); return *p }
   func derefGlobal() int { return *g }
   func callsDeref()      { derefNil() }
*)
PLoads ==
  [vals |-> <<
     iNil("ptr"),                                  \* 1: derefNil: nil:*int (p)
     iLoad(1, "int"),                              \* 2: derefNil: *p
     iReturn(<<2>>),                               \* 3: derefNil: return t2
     iAlloc,                                       \* 4: derefNew: new int
     iLoad(4, "int"),                              \* 5: derefNew: *p
     iReturn(<<5>>),                               \* 6: derefNew: return t5
     iGlobal,                                      \* 7: derefGlobal: global g
     iLoad(7, "int"),                              \* 8: derefGlobal: *g
     iReturn(<<8>>),                               \* 9: derefGlobal: return t8
     iCall(1, <<>>, "int"),                        \* 10: callsDeref: derefNil()
     iReturn(<<>>)                                 \* 11: callsDeref: return
   >>,
   funcs |-> <<
     \* 1: derefNil
     Func(<<>>, <<Block(<<2, 3>>, <<>>)>>),
     \* 2: derefNew
     Func(<<>>, <<Block(<<4, 5, 6>>, <<>>)>>),
     \* 3: derefGlobal
     Func(<<>>, <<Block(<<8, 9>>, <<>>)>>),
     \* 4: callsDeref
     Func(<<>>, <<Block(<<10, 11>>, <<>>)>>)
   >>]

(* Comparisons of integer variables whose values the evaluator knows, each
 guarding a fault:
   func leq()  { x, y := 0, 5; if x <= y { _ = ( *A)(nil).X } }
   func geq()  { x, y := 5, 0; if x >= y { _ = ( *A)(nil).X } }
   func eql()  { x, y := 0, 0; if x == y { _ = ( *A)(nil).X } }
   func neq()  { x, y := 0, 5; if x != y { _ = ( *A)(nil).X } }
   func leq2() { x, y := 5, 7; if x <= y { _ = ( *A)(nil).X } }
*)
PCompare ==
  [vals |-> <<
     iInt(0),                                      \* 1: leq: 0:int (x)
     iInt(5),                                      \* 2: leq: 5:int (y)
     iBinOp("LEQ", 1, 2, "bool"),                  \* 3: leq: x <= y
     iIf(3),                                       \* 4: leq: if x <= y
     iNil("ptr"),                                  \* 5: leq: nil:*A
     iFieldAddr(5),                                \* 6: leq: &( *A)(nil).X
     iJump,                                        \* 7: leq: jump
     iReturn(<<>>),                                \* 8: leq: return
     iInt(5),                                      \* 9: geq: 5:int (x)
     iInt(0),                                      \* 10: geq: 0:int (y)
     iBinOp("GEQ", 9, 10, "bool"),                 \* 11: geq: x >= y
     iIf(11),                                      \* 12: geq: if x >= y
     iNil("ptr"),                                  \* 13: geq: nil:*A
     iFieldAddr(13),                               \* 14: geq: &( *A)(nil).X
     iJump,                                        \* 15: geq: jump
     iReturn(<<>>),                                \* 16: geq: return
     iInt(0),                                      \* 17: eql: 0:int (x)
     iInt(0),                                      \* 18: eql: 0:int (y)
     iBinOp("EQL", 17, 18, "bool"),                \* 19: eql: x == y
     iIf(19),                                      \* 20: eql: if x == y
     iNil("ptr"),                                  \* 21: eql: nil:*A
     iFieldAddr(21),                               \* 22: eql: &( *A)(nil).X
     iJump,                                        \* 23: eql: jump
     iReturn(<<>>),                                \* 24: eql: return
     iInt(0),                                      \* 25: neq: 0:int (x)
     iInt(5),                                      \* 26: neq: 5:int (y)
     iBinOp("NEQ", 25, 26, "bool"),                \* 27: neq: x != y
     iIf(27),                                      \* 28: neq: if x != y
     iNil("ptr"),                                  \* 29: neq: nil:*A
     iFieldAddr(29),                               \* 30: neq: &( *A)(nil).X
     iJump,                                        \* 31: neq: jump
     iReturn(<<>>),                                \* 32: neq: return
     iInt(5),                                      \* 33: leq2: 5:int (x)
     iInt(7),                                      \* 34: leq2: 7:int (y)
     iBinOp("LEQ", 33, 34, "bool"),                \* 35: leq2: x <= y
     iIf(35),                                      \* 36: leq2: if x <= y
     iNil("ptr"),                                  \* 37: leq2: nil:*A
     iFieldAddr(37),                               \* 38: leq2: &( *A)(nil).X
     iJump,                                        \* 39: leq2: jump
     iReturn(<<>>)                                 \* 40: leq2: return
   >>,
   funcs |-> <<
     \* 1: leq
     Func(<<>>, <<Block(<<3, 4>>, <<2, 3>>), Block(<<6, 7>>, <<3>>), Block(<<8>>, <<>>)>>),
     \* 2: geq
     Func(<<>>, <<Block(<<11, 12>>, <<2, 3>>), Block(<<14, 15>>, <<3>>), Block(<<16>>, <<>>)>>),
     \* 3: eql
     Func(<<>>, <<Block(<<19, 20>>, <<2, 3>>), Block(<<22, 23>>, <<3>>), Block(<<24>>, <<>>)>>),
     \* 4: neq
     Func(<<>>, <<Block(<<27, 28>>, <<2, 3>>), Block(<<30, 31>>, <<3>>), Block(<<32>>, <<>>)>>),
     \* 5: leq2
     Func(<<>>, <<Block(<<35, 36>>, <<2, 3>>), Block(<<38, 39>>, <<3>>), Block(<<40>>, <<>>)>>)
   >>]

(*
 A call chain of depth d over a leaf with two faults:
   func leaf()  { _ = ( *A)(nil).X; _ = ( *A)(nil).Y }
   func f1()    { leaf() }
   func f2()    { f1() }   ...   func fd() { f(d-1)() }
 vals 1..5 are the leaf; vals 4+2k, 5+2k are fk's call and return.
 Function 1 is the leaf, function k+1 is fk.
*)
PChain(d) ==
  [vals |-> <<iNil("ptr"), iFieldAddr(1), iNil("ptr"), iFieldAddr(3), iReturn(<<>>)>>
            \o [j \in 1..(2 * d) |->
                  IF j % 2 = 1 THEN iCall((j + 1) \div 2, <<>>, "other")
                  ELSE iReturn(<<>>)],
   funcs |-> <<Func(<<>>, <<Block(<<2, 4, 5>>, <<>>)>>)>>
             \o [k \in 1..d |-> Func(<<>>, <<Block(<<4 + 2 * k, 5 + 2 * k>>, <<>>)>>)]]

\* deepest call chain among the programs analysed
MaxDepth == 3

\* the programs analysed: the fixed ones, then the call chains of depth
\* 1..MaxDepth
Programs ==
  <<PTestdata, PVariants, PInterproc, PGuardedBoth, PClosure, PNested, PDups, PPanics,
    PForward, PLoads, PCompare>>
  \o [d \in 1..MaxDepth |-> PChain(d)]

\* ------------------------------------------------------------------------
\* The evaluator.  Every operator returns what the Go function returns
\* together with the state it leaves behind:
\*   fr  = [fn, args, tr]   the frame's immutable fields
\*   env = fr.env           the frame's memo map, ssa.Value -> phi
\*   st  = [lprog, npds, heap, log, visited, blocks, trail, walk, panic]
\*         the checker, and the histories kept about it: st.walk lists the
\*         blocks whose evaluation has begun since the driver's current call
\* st.panic is set when a Go run-time panic unwinds the evaluation; every
\* caller then returns at once.
\* ------------------------------------------------------------------------

\* the value and the function behind an id, in the program the checker holds
\* (checker.lprog) and in the program under analysis
Val(st, v) == st.lprog.vals[v]

Fn(st, f) == st.lprog.funcs[f]

Vals(v) == Programs[prog].vals[v]

Funcs(f) == Programs[prog].funcs[f]

\* the history of the evaluations that returned, one set of events per kind:
\*   ifs    [ctrl, cond, taken, parts, ret]  a conditional terminator: the state
\*          of its condition, the successors whose evaluation it began, their
\*          results and its own result
\*   calls  [call, caller, fn, args]  a frame created for call by frame caller
\*   params [fn, args, param, ret]  a formal parameter evaluated in frame fn, args
\*   loads  [v, x, ret, reported]  a pointer load: the state of its operand, its
\*          result and the traces it reported
\*   binops [v, xx, yy, ret]  a binary operation: the states of its operands
\*          and its result
NoTrail == [ifs |-> {}, calls |-> {}, params |-> {}, loads |-> {}, binops |-> {}]

R(ret, env, st) == [ret |-> ret, env |-> env, st |-> st]

\* a Go run-time panic (index out of range, nil interface, panic("unreachable"))
GoPanic(env, st) == R(NilPhi, env, [st EXCEPT !.panic = TRUE])

\* fr.env[v.val] = ret; return ret
Memo(v, ret, env, st) == R(ret, (v :> ret) @@ env, st)

\* the checker after c.npds = append(c.npds, tr), tr the slice a.s just built
appendNpd(st, a) ==
  [st EXCEPT !.heap = a.heap,
             !.npds = Append(@, a.s),
             !.log  = Append(@, Elems(a.heap, a.s))]

\* report, dropping a fault whose instruction has been reported before
reportOncePerInstruction(st, fr, instr) ==
  IF \E k \in 1..Len(st.log) : st.log[k][Len(st.log[k])] = instr THEN st
  ELSE appendNpd(st, append(st.heap, fr.tr, instr))

\* checker.report: c.npds = append(c.npds, append(fr.tr, instr))
report(st, fr, instr) == appendNpd(st, append(st.heap, fr.tr, instr))

\* constZero, with the boolean case taken as constant.BoolVal
constZeroBoolNotNegated(c) ==
  CASE c.ckind = "Bool" -> c.lit # 0
    [] OTHER            -> c.lit = 0

\* the zero flag of a non-nil constant, from constant.Kind and the literal
constZero(c) ==
  CASE c.ckind = "Bool"    -> c.lit = 0      \* !constant.BoolVal
    [] c.ckind = "Int"     -> c.lit = 0      \* val.Uint64() == 0
    [] c.ckind = "Float"   -> c.lit = 0
    [] c.ckind = "Complex" -> c.lit = 0
    [] c.ckind = "String"  -> c.lit = 0      \* StringVal == "" (lit is the length)
    [] OTHER               -> FALSE

\* the Const case, with a nil constant taken for a non-zero value
symEvalConstNilNonZero(c) ==
  IF c.isnil THEN <<newValue(c.typ, FALSE)>>
  ELSE <<value("none", constZero(c), FALSE)>>

\* symEval, case *ssa.Const
symEvalConst(c) ==
  IF c.isnil THEN <<newValue(c.typ, TRUE)>>
  ELSE <<value("none", constZero(c), FALSE)>>

\* the Alloc case, with the allocation taken for a zero value
symEvalAllocZero(c) == <<value(c.typ, TRUE, TRUE)>>

\* symEval, case *ssa.Alloc
symEvalAlloc(c) == <<value(c.typ, FALSE, TRUE)>>

\* the alternatives one pair of operand alternatives adds, per operator
binOpEdges(op, typ, x, y) ==
  CASE op \in {"ADD", "SUB"}                  -> addEdge(<<>>, typ, x.zero /\ y.zero)
    [] op = "MUL"                             -> addEdge(<<>>, typ, x.zero \/ y.zero)
    [] op \in {"QUO", "REM"}                  -> addEdge(<<>>, typ, x.zero)
    [] op \in {"AND", "OR", "XOR", "AND_NOT"} -> addEdge(<<>>, typ, x.zero /\ y.zero)
    [] op \in {"SHL", "SHR"}                  -> addEdge(<<>>, typ, x.zero)
    [] op \in {"EQL", "LEQ", "GEQ"} ->
         IF x.zero /\ y.zero THEN <<newValue(typ, FALSE)>>
         ELSE IF x.zero # y.zero THEN <<newValue(typ, TRUE)>>
         ELSE <<newValue(typ, FALSE), newValue(typ, TRUE)>>
    [] op = "NEQ" ->
         IF x.zero /\ y.zero THEN <<newValue(typ, TRUE)>>
         ELSE IF x.zero # y.zero THEN <<newValue(typ, FALSE)>>
         ELSE <<newValue(typ, FALSE), newValue(typ, TRUE)>>
    [] op \in {"LSS", "GTR"} -> <<newValue(typ, FALSE), newValue(typ, TRUE)>>
    [] OTHER -> <<>>

RECURSIVE binOpLoop(_, _, _, _, _)
\* for i, x := range xx { y := yy[i]; ... }, from index i on (Len(xx) <= Len(yy))
binOpLoop(op, typ, xx, yy, i) ==
  IF i > Len(xx) THEN <<>>
  ELSE binOpEdges(op, typ, xx[i], yy[i]) \o binOpLoop(op, typ, xx, yy, i + 1)

\* the alternatives one non-zero alternative x of the operand adds, in the
\* FieldAddr case (isField) and in the UnOp MUL case
derefAlts(typ, x, isField) ==
  IF isField
    THEN IF x.toZero THEN <<value(typ, FALSE, TRUE)>>
         ELSE <<value(typ, FALSE, TRUE), value(typ, FALSE, FALSE)>>
    ELSE IF x.toZero THEN <<value(typ, TRUE, FALSE)>>
         ELSE <<value(typ, TRUE, FALSE), value(typ, TRUE, FALSE)>>

\* ret = append(ret, ...) ahead of what the rest of the loop appends
prepend(alts, rest) == [alts |-> alts \o rest.alts, st |-> rest.st]

RECURSIVE derefLoop(_, _, _, _, _, _)
\* the loop of the FieldAddr case (isField) and of the UnOp MUL case: report
\* the instruction for a zero alternative, else add the result's alternatives;
\* returns [alts, st]
derefLoop(fr, st, v, xx, i, isField) ==
  IF i > Len(xx) THEN [alts |-> <<>>, st |-> st]
  ELSE IF xx[i].zero
    THEN derefLoop(fr, report(st, fr, v), v, xx, i + 1, isField)
    ELSE prepend(derefAlts(Val(st, v).typ, xx[i], isField),
                 derefLoop(fr, st, v, xx, i + 1, isField))

RECURSIVE lookupLoop(_, _, _)
\* the loop of the Lookup case: a zero alternative, and a non-zero one unless
\* the map is zero
lookupLoop(typ, xx, i) ==
  IF i > Len(xx) THEN <<>>
  ELSE (IF xx[i].zero THEN <<newValue(typ, TRUE)>>
        ELSE <<newValue(typ, TRUE), newValue(typ, FALSE)>>)
       \o lookupLoop(typ, xx, i + 1)

\* index of parameter v in ps = fr.fn.Params, 0 when it is none of them
paramIndex(ps, v) ==
  LET S == {i \in 1..Len(ps) : ps[i] = v}
  IN IF S = {} THEN 0 ELSE CHOOSE i \in S : \A j \in S : i <= j

\* arg: fr.args[i] for the parameter of index i; 0 (the nil ssa.Value) when
\* the loop found none
paramArg(fr, i) == IF i = 0 THEN 0 ELSE fr.args[i]

RECURSIVE symEval(_, _, _, _)
RECURSIVE symEvalExtract(_, _, _, _)
RECURSIVE symEvalCall(_, _, _, _, _)
RECURSIVE symEvalFunc(_, _, _, _, _, _)
RECURSIVE symEvalBlock(_, _, _, _, _)
RECURSIVE instrLoop(_, _, _, _, _)

\* get, without the lookup in fr.env
getNoMemo(fr, env, st, v) == symEval(fr, env, st, v)

\* frame.get
get(fr, env, st, v) ==
  IF v \in DOMAIN env THEN R(env[v], env, st) ELSE symEval(fr, env, st, v)

\* ret = <the nested evaluation r>; fr.env[v.val] = ret; return ret
memoResult(v, r) == IF r.st.panic THEN r ELSE Memo(v, r.ret, r.env, r.st)

\* symEval, case *ssa.Parameter, after ret = fr.get(&value{val: arg}) gave r
paramResult(fr, v, r) ==
  IF r.st.panic THEN r
  ELSE Memo(v, r.ret, r.env,
            [r.st EXCEPT !.trail.params = @ \cup
               {[fn |-> fr.fn, args |-> fr.args, param |-> v, ret |-> r.ret]}])

\* the checker once the binary operation v of operands in states xx and yy
\* has been evaluated to ret
recordBinOp(st, v, xx, yy, ret) ==
  [st EXCEPT !.trail.binops = @ \cup {[v |-> v, xx |-> xx, yy |-> yy, ret |-> ret]}]

\* symEval, case *ssa.BinOp, once xx = rx.ret and yy = ry.ret are known
binOpResult(v, val, rx, ry) ==
  IF ry.st.panic THEN ry
  ELSE IF Len(rx.ret.alts) > Len(ry.ret.alts)
    THEN GoPanic(ry.env, ry.st)                  \* yy[i]: index out of range
    ELSE Memo(v, RetPhi(binOpLoop(val.op, val.typ, rx.ret.alts, ry.ret.alts, 1)),
              ry.env,
              recordBinOp(ry.st, v, rx.ret, ry.ret,
                          RetPhi(binOpLoop(val.op, val.typ, rx.ret.alts, ry.ret.alts, 1))))

\* symEval, case *ssa.BinOp, from fr.get(val.Y) on; rx is fr.get(val.X)
symEvalBinOp(fr, v, val, rx) ==
  IF rx.st.panic THEN rx
  ELSE binOpResult(v, val, rx, get(fr, rx.env, rx.st, val.Y))

\* the end of the FieldAddr case; l is what the loop left
derefResult(v, env, l) == Memo(v, RetPhi(l.alts), env, l.st)

\* symEval, case *ssa.FieldAddr, after xx := fr.get(val.X)
symEvalFieldAddr(fr, v, rx) ==
  IF rx.st.panic THEN rx
  ELSE IF rx.ret.isnil THEN R(NilPhi, rx.env, rx.st)
  ELSE derefResult(v, rx.env, derefLoop(fr, rx.st, v, rx.ret.alts, 1, TRUE))

\* symEval, case *ssa.Lookup, after xx := fr.get(val.X)
symEvalLookup(v, val, rx) ==
  IF rx.st.panic THEN rx
  ELSE IF rx.ret.isnil THEN R(NilPhi, rx.env, rx.st)
  ELSE IF rx.ret.alts = <<>> THEN GoPanic(rx.env, rx.st)         \* xx[0]
  ELSE IF rx.ret.alts[1].typ = "none" THEN GoPanic(rx.env, rx.st) \* nil val
  ELSE IF rx.ret.alts[1].typ # "map" THEN R(NilPhi, rx.env, rx.st)
  ELSE IF \E i \in 1..Len(rx.ret.alts) : rx.ret.alts[i].typ # "map"
    THEN GoPanic(rx.env, rx.st)                  \* x.val.Type().( *types.Map)
  ELSE Memo(v, RetPhi(lookupLoop(val.typ, rx.ret.alts, 1)), rx.env, rx.st)

\* the checker once the load v of an operand in state x has been evaluated
\* to ret, the checker's log having held n traces before
recordLoad(st, v, x, ret, n) ==
  [st EXCEPT !.trail.loads = @ \cup
     {[v |-> v, x |-> x, ret |-> ret, reported |-> SubSeq(st.log, n + 1, Len(st.log))]}]

\* the end of the UnOp MUL case; l is what the loop over xx = rx.ret left
loadResult(v, rx, l) ==
  Memo(v, RetPhi(l.alts), rx.env,
       recordLoad(l.st, v, rx.ret, RetPhi(l.alts), Len(rx.st.log)))

\* the UnOp case with the transfer function of token.MUL disabled
symEvalUnOpDisabled(fr, v, val, rx) ==
  IF rx.st.panic THEN rx
  ELSE IF val.op = "MUL"
    THEN R(NilPhi, rx.env, recordLoad(rx.st, v, rx.ret, NilPhi, Len(rx.st.log)))
    ELSE R(NilPhi, rx.env, rx.st)

\* symEval, case *ssa.UnOp, after xx := fr.get(val.X)
symEvalUnOp(fr, v, val, rx) ==
  IF rx.st.panic THEN rx
  ELSE IF rx.ret.isnil
    THEN R(NilPhi, rx.env,
           IF val.op = "MUL"
             THEN recordLoad(rx.st, v, rx.ret, NilPhi, Len(rx.st.log))
             ELSE rx.st)
  ELSE IF val.op = "MUL"
    THEN loadResult(v, rx, derefLoop(fr, rx.st, v, rx.ret.alts, 1, FALSE))
    ELSE R(NilPhi, rx.env, rx.st)

\* frame.symEval; v = 0 is the nil ssa.Value, which no case matches
symEval(fr, env, st, v) ==
  LET val == IF v = 0 THEN V("nil") ELSE Val(st, v)
      i   == paramIndex(Fn(st, fr.fn).params, v)
  IN
  CASE val.kind = "Alloc" -> Memo(v, MkPhi(symEvalAlloc(val)), env, st)
    [] val.kind = "BinOp" -> symEvalBinOp(fr, v, val, get(fr, env, st, val.X))
    [] val.kind = "Call" -> memoResult(v, symEvalCall(fr, env, st, v, 0))
    [] val.kind = "Const" -> Memo(v, MkPhi(symEvalConst(val)), env, st)
    [] val.kind = "Extract" -> memoResult(v, symEvalExtract(fr, env, st, v))
    [] val.kind = "FieldAddr" ->
         symEvalFieldAddr(fr, v, get(fr, env, [st EXCEPT !.visited = @ \cup {v}], val.X))
    [] val.kind = "Global" -> R(NilPhi, env, st)
    [] val.kind = "Lookup" -> symEvalLookup(v, val, get(fr, env, st, val.X))
    [] val.kind \in {"Next", "TypeAssert"} -> GoPanic(env, st)   \* panic("unreachable")
    [] val.kind = "Parameter" ->
         IF fr.args = <<>> THEN R(NilPhi, env, st)
         ELSE IF i > Len(fr.args) THEN GoPanic(env, st)          \* fr.args[i]
         ELSE paramResult(fr, v, get(fr, env, st, paramArg(fr, i)))
    [] val.kind = "UnOp" -> symEvalUnOp(fr, v, val, get(fr, env, st, val.X))
    [] OTHER -> Memo(v, NilPhi, env, st)

\* symEvalExtract, case *ssa.Lookup, after xx := fr.symEval(val.X); t is the Extract
extractLookup(t, rx) ==
  IF rx.st.panic THEN rx
  ELSE IF rx.ret.isnil THEN R(NilPhi, rx.env, rx.st)
  ELSE IF t.idx = 0 /\ \E i \in 1..Len(rx.ret.alts) : rx.ret.alts[i].typ # "map"
    THEN GoPanic(rx.env, rx.st)                  \* x.val.Type().( *types.Map)
  ELSE R(MkPhi(lookupLoop(t.typ, rx.ret.alts, 1)), rx.env, rx.st)

\* frame.symEvalExtract; t is the Extract, Val(st, t).X its Tuple
symEvalExtract(fr, env, st, t) ==
  LET tup == Val(st, Val(st, t).X) IN
  CASE tup.kind = "Call" -> symEvalCall(fr, env, st, Val(st, t).X, Val(st, t).idx)
    [] tup.kind = "Lookup" -> extractLookup(Val(st, t), symEval(fr, env, st, tup.X))
    [] OTHER -> R(NilPhi, env, st)

\* back in the caller's frame with the callee's return value r = [ret, st]
returned(env, r) == R(r.ret, env, r.st)

\* frame.symEvalCall
symEvalCall(fr, env, st, call, res) ==
  LET c == Val(st, call) IN
  CASE c.mode = "Invoke" -> R(NilPhi, env, st)
    [] c.mode = "Function" -> returned(env, symEvalFunc(fr, st, call, c.fn, c.args, res))
    [] c.mode = "MakeClosure" ->
         returned(env, symEvalFunc(fr, st, call, c.fn, c.bindings, res))
    [] OTHER -> symEval(fr, env, st, c.X)

\* what symEvalFunc returns of the new frame's evaluation r: the frame and
\* its env are dropped
dropFrame(r) == [ret |-> r.ret, st |-> r.st]

\* newfr := &frame{fn, args, tr, ...}; return newfr.symEvalBlock(fn.Blocks[0], res)
newFrame(fn, args, tr, st, res) ==
  dropFrame(symEvalBlock([fn |-> fn, args |-> args, tr |-> tr], << >>, st, 1, res))

\* symEvalFunc for call != nil, after tr = append(tr, call) gave the slice a.s
enterCall(fn, args, call, st, a, res) ==
  newFrame(fn, args, a.s,
           [st EXCEPT !.heap = a.heap, !.visited = @ \cup {call}], res)

\* the checker once frame fr has created a frame of fn with args for call
recordCall(st, fr, call, fn, args) ==
  [st EXCEPT !.trail.calls = @ \cup
     {[call |-> call, caller |-> [fn |-> fr.fn, args |-> fr.args],
       fn |-> fn, args |-> args]}]

\* frame.symEvalFunc; call = 0 is the driver's nil call.  Returns [ret, st].
symEvalFunc(fr, st, call, fn, args, res) ==
  IF Fn(st, fn).blocks = <<>> THEN [ret |-> NilPhi, st |-> st]
  ELSE IF call = 0 THEN newFrame(fn, args, fr.tr, st, res)
  ELSE enterCall(fn, args, call, recordCall(st, fr, call, fn, args),
                 append(st.heap, fr.tr, call), res)

\* staticCallee, without the *ssa.MakeClosure case
staticCalleeFunctionOnly(val) ==
  CASE val.mode = "Function" -> [fn |-> val.fn, args |-> val.args]
    [] OTHER                 -> [fn |-> 0, args |-> <<>>]

\* the callee and the bound values the instruction loop resolves for a call
\* (switch call := v.Call.Value.(type)); fn = 0 when f stays nil
staticCallee(val) ==
  CASE val.mode = "Function"    -> [fn |-> val.fn, args |-> val.args]
    [] val.mode = "MakeClosure" -> [fn |-> val.fn, args |-> val.bindings]
    [] OTHER                    -> [fn |-> 0, args |-> <<>>]

\* the frame's env and the checker after a result r that the loop discards
discard(env, r) == [env |-> env, st |-> r.st]

\* the body of the instruction loop for instruction v; returns [env, st]
instrStep(fr, env, st, v) ==
  CASE Val(st, v).kind = "FieldAddr" ->
         \* _ = fr.symEval(&value{val: v}): symEval writes fr.env
         symEval(fr, env, st, v)
    [] Val(st, v).kind = "Call" /\ staticCallee(Val(st, v)).fn # 0 ->
         discard(env, symEvalFunc(fr, st, v, staticCallee(Val(st, v)).fn,
                                  staticCallee(Val(st, v)).args, 0))
    [] OTHER -> [env |-> env, st |-> st]

\* the loop goes on from instrs[i] after a step that left s.env and s.st
instrNext(fr, s, instrs, i) == instrLoop(fr, s.env, s.st, instrs, i)

\* the instruction loop of symEvalBlock over instrs[i..]; returns [env, st]
instrLoop(fr, env, st, instrs, i) ==
  IF i > Len(instrs) \/ st.panic THEN [env |-> env, st |-> st]
  ELSE instrNext(fr, instrStep(fr, env, st, instrs[i]), instrs, i + 1)

\* the block whose evaluation began first between checker s0 and checker s1,
\* and the result r of that evaluation; none when no evaluation began
entered(s0, s1) ==
  IF Len(s1.walk) > Len(s0.walk) THEN <<s1.walk[Len(s0.walk) + 1]>> ELSE <<>>

part(s0, r) == IF Len(r.st.walk) > Len(s0.walk) THEN <<r.ret>> ELSE <<>>

\* the If case returns ret, having begun the evaluation of the blocks taken,
\* whose results were parts
ifReturn(block, cond, taken, parts, ret, env, st) ==
  R(ret, env,
    [st EXCEPT !.trail.ifs = @ \cup
       {[ctrl |-> block.instrs[Len(block.instrs)], cond |-> cond.ret,
         taken |-> taken, parts |-> parts, ret |-> ret]}])

\* edges = append(edges, <the false successor's result r2>...); return edges
concatEdges(block, cond, r1, r2) ==
  IF r2.st.panic THEN r2
  ELSE ifReturn(block, cond, entered(cond.st, r1.st) \o entered(r1.st, r2.st),
                part(cond.st, r1) \o part(r1.st, r2),
                MkPhi(r1.ret.alts \o r2.ret.alts), r2.env, r2.st)

\* case *ssa.If after the true successor: r1 is its result, or no alternatives
ifFalse(fr, block, res, cond, fals, r1) ==
  IF r1.st.panic THEN r1
  ELSE IF fals
    THEN concatEdges(block, cond, r1,
                     symEvalBlock(fr, r1.env, r1.st, block.succs[2], res))
  ELSE ifReturn(block, cond, entered(cond.st, r1.st), part(cond.st, r1),
                MkPhi(r1.ret.alts), r1.env, r1.st)

\* symEvalIf, with the test of c.zero inverted: a zero alternative selects
\* the true successor
symEvalIfZeroIsTrue(fr, block, res, cond) ==
  IF cond.st.panic THEN cond
  ELSE IF cond.ret.isnil THEN ifReturn(block, cond, <<>>, <<>>, NilPhi, cond.env, cond.st)
  ELSE ifFalse(fr, block, res, cond,
               \E i \in 1..Len(cond.ret.alts) : ~cond.ret.alts[i].zero,
               IF \E i \in 1..Len(cond.ret.alts) : cond.ret.alts[i].zero
                 THEN symEvalBlock(fr, cond.env, cond.st, block.succs[1], res)
                 ELSE R(NilPhi, cond.env, cond.st))

\* symEvalBlock, case *ssa.If, after cond := fr.symEval(ctrl.Cond)
symEvalIf(fr, block, res, cond) ==
  IF cond.st.panic THEN cond
  ELSE IF cond.ret.isnil THEN ifReturn(block, cond, <<>>, <<>>, NilPhi, cond.env, cond.st)
  ELSE ifFalse(fr, block, res, cond,
               \E i \in 1..Len(cond.ret.alts) : cond.ret.alts[i].zero,
               IF \E i \in 1..Len(cond.ret.alts) : ~cond.ret.alts[i].zero
                 THEN symEvalBlock(fr, cond.env, cond.st, block.succs[1], res)
                 ELSE R(NilPhi, cond.env, cond.st))

\* symEvalBlock after the instruction loop left l = [env, st]:
\* switch ctrl := block.Instrs[len(block.Instrs)-1].(type)
terminator(fr, block, res, l) ==
  LET ctrl == Val(l.st, block.instrs[Len(block.instrs)]) IN
  IF l.st.panic THEN R(NilPhi, l.env, l.st)
  ELSE
  CASE ctrl.kind = "If" -> symEvalIf(fr, block, res, symEval(fr, l.env, l.st, ctrl.X))
    [] ctrl.kind = "Jump" -> symEvalBlock(fr, l.env, l.st, block.succs[1], res)
    [] ctrl.kind = "Panic" -> R(NilPhi, l.env, l.st)
    [] ctrl.kind = "Return" ->
         IF ctrl.results = <<>> THEN R(NilPhi, l.env, l.st)
         ELSE IF res + 1 > Len(ctrl.results) THEN GoPanic(l.env, l.st)  \* Results[res]
         ELSE symEval(fr, l.env, l.st, ctrl.results[res + 1])
    [] OTHER -> GoPanic(l.env, l.st)                                     \* panic("unreachable")

\* the checker once the evaluation of block b has begun
enterBlock(st, b) == [st EXCEPT !.walk = Append(@, b)]

\* frame.symEvalBlock; b is the block's index in fr.fn.Blocks
symEvalBlock(fr, env, st, b, res) ==
  IF Fn(st, fr.fn).blocks[b].instrs = <<>> THEN R(NilPhi, env, enterBlock(st, b))
  ELSE terminator(fr, Fn(st, fr.fn).blocks[b], res,
                  instrLoop(fr, env,
                            [enterBlock(st, b) EXCEPT
                               !.blocks = @ \cup {<<fr.fn, b, fr.tr.len>>}],
                            Fn(st, fr.fn).blocks[b].instrs, 1))

\* ------------------------------------------------------------------------
\* The driver: check() (src/main.go:64-82)
\* ------------------------------------------------------------------------

AllFunctions == 1..Len(Programs[prog].funcs)

\* the traces of a result list, read through the backing arrays
Resolve(h, list) == [i \in 1..Len(list) |-> Elems(h, list[i])]

\* arrays the result list still references, renumbered in order of first
\* reference (the garbage collector frees the others; ids are not observable)
RECURSIVE liveArrays(_, _, _)
liveArrays(list, i, acc) ==
  IF i > Len(list) THEN acc
  ELSE liveArrays(list, i + 1,
         IF \E k \in 1..Len(acc) : acc[k] = list[i].arr THEN acc
         ELSE Append(acc, list[i].arr))

Compact(h, list) ==
  LET live == liveArrays(list, 1, <<>>)
      newid(a) == CHOOSE k \in 1..Len(live) : live[k] = a
  IN [heap |-> [k \in 1..Len(live) |-> h[live[k]]],
      npds |-> [i \in 1..Len(list) |-> [arr |-> newid(list[i].arr), len |-> list[i].len]]]

\* one iteration of `for fn := range ssautil.AllFunctions(prog)`:
\* _ = fr.symEvalFunc(nil, fn, nil, 0) on the driver's frame
seed(st, fn) == symEvalFunc([fn |-> 0, args |-> <<>>, tr |-> NilSlice], st, 0, fn, <<>>, 0).st

Init ==
  /\ prog \in 1..Len(Programs)
  /\ todo = AllFunctions
  /\ pc = "run"
  /\ npds = <<>>
  /\ heap = <<>>
  /\ log = <<>>
  /\ visited = {}
  /\ blocks = {}
  /\ trail = NoTrail

\* the checker as the driver loop holds it between two iterations
checker == [lprog |-> Programs[prog], npds |-> npds, heap |-> heap, log |-> log,
            visited |-> visited, blocks |-> blocks, trail |-> trail, walk |-> <<>>,
            panic |-> FALSE]

\* the iteration ends: st is the checker it leaves, c what is still referenced
endIteration(st, c) ==
  /\ npds' = c.npds
  /\ heap' = c.heap
  /\ log' = st.log
  /\ visited' = st.visited
  /\ blocks' = st.blocks
  /\ trail' = st.trail
  /\ pc' = IF st.panic THEN "panicked" ELSE "run"

afterSeed(st) == endIteration(st, Compact(st.heap, st.npds))

\* Go's map iteration order is unspecified: any function not yet visited
Seed(fn) ==
  /\ pc = "run"
  /\ fn \in todo
  /\ afterSeed(seed(checker, fn))
  /\ todo' = todo \ {fn}
  /\ UNCHANGED prog

\* return c.npds, nil
Return ==
  /\ pc = "run"
  /\ todo = {}
  /\ pc' = "done"
  /\ UNCHANGED <<prog, todo, npds, heap, log, visited, blocks, trail>>

Next == (\E fn \in AllFunctions : Seed(fn)) \/ Return

Spec == Init /\ [][Next]_vars

\* the result list as main() prints it
Result == Resolve(heap, npds)

RECURSIVE checkFrom(_, _)
\* the driver loop from function fn on, visiting the functions in index order
checkFrom(st, fn) ==
  IF fn > Len(st.lprog.funcs) \/ st.panic THEN st
  ELSE checkFrom(seed(st, fn), fn + 1)

\* check(): one whole pass that visits the functions in index order
check ==
  checkFrom([lprog |-> Programs[prog], npds |-> <<>>, heap |-> <<>>, log |-> <<>>,
             visited |-> {}, blocks |-> {}, trail |-> NoTrail, walk |-> <<>>,
             panic |-> FALSE], 1)

\* ------------------------------------------------------------------------
\* Vocabulary of the properties
\* ------------------------------------------------------------------------

Instrs == 1..Len(Programs[prog].vals)

BlocksOf(f) == 1..Len(Funcs(f).blocks)

HasBody(f) == Funcs(f).blocks # <<>>

InBlock(v, f, b) == \E k \in 1..Len(Funcs(f).blocks[b].instrs) : Funcs(f).blocks[b].instrs[k] = v

InFunc(v, f) == \E b \in BlocksOf(f) : InBlock(v, f, b)

\* the instructions of f's entry block, and of all its blocks
EntryInstrs(f) == IF HasBody(f) THEN {Funcs(f).blocks[1].instrs[k] : k \in 1..Len(Funcs(f).blocks[1].instrs)} ELSE {}

InstrsOf(f) == UNION {{Funcs(f).blocks[b].instrs[k] : k \in 1..Len(Funcs(f).blocks[b].instrs)} : b \in BlocksOf(f)}

Terminator(f, b) == Funcs(f).blocks[b].instrs[Len(Funcs(f).blocks[b].instrs)]

LastOf(t) == t[Len(t)]

Range(seq) == {seq[k] : k \in 1..Len(seq)}

Count(seq, t) == Cardinality({k \in 1..Len(seq) : seq[k] = t})

IsKind(v, kind) == v # 0 /\ Vals(v).kind = kind

IsNilConst(v) == IsKind(v, "Const") /\ Vals(v).isnil

IsFieldAddr(v) == IsKind(v, "FieldAddr")

\* a call the evaluator resolves statically: a direct function or a closure
IsStaticCall(v) == IsKind(v, "Call") /\ Vals(v).mode \in {"Function", "MakeClosure"}

\* block b of f has been walked in some frame / in a seed frame
Walked(f, b) == \E w \in blocks : w[1] = f /\ w[2] = b

WalkedBySeed(f, b) == <<f, b, 0>> \in blocks

Seeded(f) == f \notin todo

\* a field access through parameter k of f in f's entry block
ParamAccesses(f, k) ==
  {x \in EntryInstrs(f) : /\ k <= Len(Funcs(f).params)
                          /\ IsFieldAddr(x)
                          /\ Vals(x).X = Funcs(f).params[k]}

\* f returns a nil constant from one block and an allocation from another
ReturnsNilOrAlloc(f) ==
  /\ HasBody(f)
  /\ \E b \in BlocksOf(f) : LET t == Vals(Terminator(f, b)) IN
        t.kind = "Return" /\ Len(t.results) = 1 /\ IsNilConst(t.results[1])
  /\ \E b \in BlocksOf(f) : LET t == Vals(Terminator(f, b)) IN
        t.kind = "Return" /\ Len(t.results) = 1 /\ IsKind(t.results[1], "Alloc")

\* <<c, i>>: c calls such an f directly and i, in the same block of g, takes a
\* field address through c's result with no comparison of c in between
UnguardedUses(g) ==
  {u \in EntryInstrs(g) \X EntryInstrs(g) :
     /\ IsFieldAddr(u[2]) /\ Vals(u[2]).X = u[1]
     /\ IsKind(u[1], "Call") /\ Vals(u[1]).mode = "Function"
     /\ ReturnsNilOrAlloc(Vals(u[1]).fn)}

\* <<c, i>>: i takes a field address through the result of call c only on the
\* non-nil side of a comparison of c with nil: in the true successor of
\* `if c != nil`, or in the false successor of `if c == nil` whose true
\* successor returns
GuardedUses(g) ==
  {u \in InstrsOf(g) \X InstrsOf(g) :
     /\ IsKind(u[1], "Call")
     /\ IsFieldAddr(u[2]) /\ Vals(u[2]).X = u[1]
     /\ \E b \in BlocksOf(g) :
          LET t == Vals(Terminator(g, b))
              c == Vals(t.X)
              s == Funcs(g).blocks[b].succs
          IN /\ t.kind = "If" /\ IsKind(t.X, "BinOp")
             /\ c.X = u[1] /\ IsNilConst(c.Y)
             /\ \/ c.op = "NEQ" /\ InBlock(u[2], g, s[1])
                \/ /\ c.op = "EQL" /\ InBlock(u[2], g, s[2])
                   /\ Vals(Terminator(g, s[1])).kind = "Return"}

\* ------------------------------------------------------------------------
\* C1
\* ------------------------------------------------------------------------

\* C1: when a walked block holds a statically resolvable call that passes a
\* nil constant for a parameter the callee's entry block field-accesses, the
\* result of the pass holds a trace for that access whose first element is
\* the call instruction.
C1_NilArgReportedAtCallSite ==
  pc = "done" =>
    \A f \in AllFunctions : \A b \in BlocksOf(f) : \A c \in Instrs :
      (Walked(f, b) /\ InBlock(c, f, b) /\ IsStaticCall(c)) =>
        \A k \in 1..Len(Vals(c).args) :
          IsNilConst(Vals(c).args[k]) =>
            \A x \in ParamAccesses(Vals(c).fn, k) :
              \E t \in Range(Result) : t[1] = c /\ LastOf(t) = x

\* ------------------------------------------------------------------------
\* C2
\* ------------------------------------------------------------------------

NilBranchFeasible(c) ==
  LET f == Vals(c).fn
      t == Vals(Terminator(f, 1))
      s == Funcs(f).blocks[1].succs
      retNil(b) == LET r == Vals(Terminator(f, b)) IN
                     r.kind = "Return" /\ Len(r.results) = 1 /\ IsNilConst(r.results[1])
      k == CHOOSE j \in 1..Len(Funcs(f).params) : Funcs(f).params[j] = t.X
  IN /\ t.kind = "If"
     /\ \/ /\ IsKind(t.X, "Parameter")
           /\ Vals(Vals(c).args[k]).ckind = "Bool"
           /\ retNil(IF Vals(Vals(c).args[k]).lit = 1 THEN s[1] ELSE s[2])
        \/ /\ IsKind(t.X, "BinOp") /\ Vals(t.X).op \in {"LSS", "GTR"}
           /\ (retNil(s[1]) \/ retNil(s[2]))

C3_GuardedNotReported ==
  \A g \in AllFunctions : \A u \in GuardedUses(g) :
    Seeded(g) => (pc # "panicked" /\ \A t \in Range(log) : LastOf(t) # u[2])

\* ------------------------------------------------------------------------
\* C4
\* ------------------------------------------------------------------------

\* field-address-of instructions with a nil constant base in a block a seed
\* evaluation walked
NilBaseAccesses ==
  {i \in Instrs : /\ IsFieldAddr(i) /\ IsNilConst(Vals(i).X)
                  /\ \E f \in AllFunctions : \E b \in BlocksOf(f) :
                       InBlock(i, f, b) /\ WalkedBySeed(f, b)}

\* <<inner, outer>>: outer takes a field address through the pointer loaded
\* from inner, and inner's base is a nil constant (x.a.X with x nil)
NilChains ==
  {<<Vals(Vals(o).X).X, o>> :
     o \in {i \in Instrs :
              /\ IsFieldAddr(i) /\ IsKind(Vals(i).X, "UnOp")
              /\ Vals(Vals(i).X).op = "MUL"
              /\ IsFieldAddr(Vals(Vals(i).X).X)
              /\ IsNilConst(Vals(Vals(Vals(i).X).X).X)}}

\* C4 as stated: at the end of the pass exactly one trace of the result ends
\* in each such instruction, and none ends in the outer access of a chain.
C4_ExactlyOneTrace ==
  pc = "done" =>
    /\ \A i \in NilBaseAccesses :
         Cardinality({k \in 1..Len(Result) : LastOf(Result[k]) = i}) = 1
    /\ \A u \in NilChains : \A t \in Range(Result) : LastOf(t) # u[2]

\* C4, amended: at the end of the pass the result holds the trace <<i>> for
\* each such instruction i (at least once), and no trace, reported or in the
\* result, ends in the outer access of a chain: only the innermost access is
\* reported.
C4_AtLeastOneTrace ==
  /\ pc = "done" => \A i \in NilBaseAccesses : <<i>> \in Range(Result)
  /\ \A u \in NilChains :
        /\ \A t \in Range(log) : LastOf(t) # u[2]
        /\ \A k \in 1..Len(Result) : LastOf(Result[k]) # u[2]

\* a pass has ended on a program with a chain whose outer access was
\* evaluated and whose inner access is in the result
C4_Witness ==
  /\ pc = "done"
  /\ \E u \in NilChains : u[2] \in visited /\ <<u[1]>> \in Range(Result)

\* ------------------------------------------------------------------------
\* C5
\* ------------------------------------------------------------------------

\* C5: no reported trace ends in a field-address-of whose base is an
\* allocation instruction, in seed frames and in call frames alike.
C5_AllocBaseNeverReported ==
  \A t \in Range(log) \cup Range(Result) :
    ~(IsFieldAddr(LastOf(t)) /\ IsKind(Vals(LastOf(t)).X, "Alloc"))

\* a field-address-of with an allocation base has been evaluated in a block
\* walked by a call frame (call depth >= 1)
C5_Witness ==
  \E i \in visited : \E w \in blocks :
    /\ IsFieldAddr(i) /\ IsKind(Vals(i).X, "Alloc")
    /\ w[3] >= 1 /\ InBlock(i, w[1], w[2])

\* ------------------------------------------------------------------------
\* C6
\* ------------------------------------------------------------------------

\* C6: at the end of the pass every trace of the result is what was reported
\* (frame.tr followed by the instruction, as it was at report time): all its
\* elements but the last are call instructions, the last is the dereference,
\* and nothing after the report has changed it.
C6_ResultIsWhatWasReported ==
  pc = "done" =>
    /\ Result = log
    /\ \A t \in Range(Result) :
         /\ \A k \in 1..(Len(t) - 1) : IsKind(t[k], "Call")
         /\ IsKind(LastOf(t), "FieldAddr") \/ IsKind(LastOf(t), "UnOp")

\* ------------------------------------------------------------------------
\* C7
\* ------------------------------------------------------------------------

SameBag(s, t) == \A x \in Range(s) \cup Range(t) : Count(s, x) = Count(t, x)

\* C7: the pass that visited the functions in the order this behaviour chose
\* ends with the same multiset of traces as the pass that visits them in
\* index order.
C7_OrderIndependent ==
  pc = "done" => (~check.panic /\ SameBag(Result, Resolve(check.heap, check.npds)))

\* a pass has ended whose result lists the traces in another order than the
\* pass in index order does
C7_Witness ==
  pc = "done" /\ Len(Result) >= 2 /\ Result # Resolve(check.heap, check.npds)

\* ------------------------------------------------------------------------
\* C8
\* ------------------------------------------------------------------------

ConsumedFaultyCalls(g) ==
  {u \in EntryInstrs(g) \X Instrs :
     /\ IsKind(u[1], "Call") /\ Vals(u[1]).mode = "Function"
     /\ HasBody(Vals(u[1]).fn) /\ Funcs(Vals(u[1]).fn).params = <<>>
     /\ InBlock(u[2], Vals(u[1]).fn, 1)
     /\ IsFieldAddr(u[2]) /\ IsNilConst(Vals(u[2]).X)
     /\ u[2] \notin Range(Vals(Terminator(Vals(u[1]).fn, 1)).results)
     /\ \E i \in Instrs : InBlock(i, g, 1) /\ IsFieldAddr(i) /\ Vals(i).X = u[1]}

Checked(v) == IsFieldAddr(v) \/ IsStaticCall(v)

\* C9 as stated: when the driver has finished, every field-address-of and
\* every statically resolvable call of every function with a body has been
\* evaluated.
C9_EveryInstructionEvaluated ==
  pc = "done" =>
    \A f \in AllFunctions : \A v \in Instrs :
      (HasBody(f) /\ InFunc(v, f) /\ Checked(v)) => v \in visited

\* C9, amended: when the driver has finished, the entry block of every
\* function with a body has been walked by a seed frame, every walked block
\* has had each of its field-address-of and statically resolvable call
\* instructions evaluated, and the successor of every walked block that ends
\* in a jump has been walked in the same frame depth.  (Blocks behind a
\* condition that yields no information, or on the side a resolved condition
\* rules out, need not be.)
C9_WalkedBlocksEvaluated ==
  pc = "done" =>
    /\ \A f \in AllFunctions : HasBody(f) => WalkedBySeed(f, 1)
    /\ \A w \in blocks :
         /\ \A v \in Instrs : (InBlock(v, w[1], w[2]) /\ Checked(v)) => v \in visited
         /\ Vals(Terminator(w[1], w[2])).kind = "Jump"
              => <<w[1], Funcs(w[1]).blocks[w[2]].succs[1], w[3]>> \in blocks

\* the driver has finished, a closure call and a direct call have been
\* entered, and some field-address-of was never evaluated
C9_Witness ==
  /\ pc = "done"
  /\ \E v \in Instrs : IsFieldAddr(v) /\ v \notin visited
  /\ \E v \in visited : IsKind(v, "Call")

\* ------------------------------------------------------------------------
\* C10
\* ------------------------------------------------------------------------

\* no block of the program ends in an instruction that is not a terminator
\* symEvalBlock recognises
TerminatorsRecognised ==
  \A f \in AllFunctions : \A b \in BlocksOf(f) :
    Funcs(f).blocks[b].instrs # <<>> =>
      Vals(Terminator(f, b)).kind \in {"If", "Jump", "Panic", "Return"}

\* C10: evaluation never aborts the analysis unless a block ends in an
\* unrecognised terminator.
C10_NeverAborts == TerminatorsRecognised => pc # "panicked"

\* ------------------------------------------------------------------------
\* C11
\* ------------------------------------------------------------------------

\* the successors of the block that ends in the conditional terminator i
SuccsOf(i) ==
  LET w == CHOOSE w \in UNION {{<<f, b>> : b \in BlocksOf(f)} : f \in AllFunctions} :
             Funcs(w[1]).blocks[w[2]].instrs # <<>> /\ Terminator(w[1], w[2]) = i
  IN Funcs(w[1]).blocks[w[2]].succs

HasZero(p) == \E k \in 1..Len(p.alts) : p.alts[k].zero

HasNonZero(p) == \E k \in 1..Len(p.alts) : ~p.alts[k].zero

\* the alternatives of at most two states, one after the other
Flatten(parts) ==
  IF parts = <<>> THEN <<>>
  ELSE IF Len(parts) = 1 THEN parts[1].alts
  ELSE parts[1].alts \o parts[2].alts

\* C11: every evaluation of a conditional terminator that returned began the
\* evaluation of exactly these successors, in this order: the true successor
\* iff some alternative of the condition is non-zero, then the false successor
\* iff some alternative is zero; its result is the concatenation of their
\* results.  When the condition's state is absent it began none and its
\* result is absent.
C11_SuccessorsFollowCondition ==
  \A e \in trail.ifs :
    LET s == SuccsOf(e.ctrl) IN
    IF e.cond.isnil THEN e.taken = <<>> /\ e.ret.isnil
    ELSE /\ e.taken = (IF HasNonZero(e.cond) THEN <<s[1]>> ELSE <<>>)
                       \o (IF HasZero(e.cond) THEN <<s[2]>> ELSE <<>>)
         /\ Len(e.parts) = Len(e.taken)
         /\ ~e.ret.isnil
         /\ e.ret.alts = Flatten(e.parts)

\* conditional terminators have returned with a condition that is absent,
\* one that is only non-zero, one that is only zero and one of both kinds
C11_Witness ==
  /\ \E e \in trail.ifs : e.cond.isnil
  /\ \E e \in trail.ifs : ~e.cond.isnil /\ HasNonZero(e.cond) /\ ~HasZero(e.cond)
  /\ \E e \in trail.ifs : ~e.cond.isnil /\ HasZero(e.cond) /\ ~HasNonZero(e.cond)
  /\ \E e \in trail.ifs : HasZero(e.cond) /\ HasNonZero(e.cond) /\ Len(e.taken) = 2

\* ------------------------------------------------------------------------
\* C12
\* ------------------------------------------------------------------------

\* the state of value v in a frame f = [fn, args], evaluated on its own
StateIn(f, v) ==
  get([fn |-> f.fn, args |-> f.args, tr |-> NilSlice], << >>,
      [lprog |-> Programs[prog], npds |-> <<>>, heap |-> <<>>, log |-> <<>>,
       visited |-> {}, blocks |-> {}, trail |-> NoTrail, walk |-> <<>>,
       panic |-> FALSE], v).ret

\* the formal parameters of fn evaluated in a frame of fn with these args
ParamsEvaluated(fn, args) ==
  {p \in trail.params : p.fn = fn /\ p.args = args
                          /\ p.param \in Range(Funcs(fn).params)}

\* C12: in a frame created for a direct function call, a formal parameter
\* that was evaluated got the state that the positionally matching actual
\* argument of the call has in the caller's frame.
C12_ParameterIsArgument ==
  \A c \in trail.calls :
    Vals(c.call).mode = "Function" =>
      \A p \in ParamsEvaluated(c.fn, c.args) :
        p.ret = StateIn(c.caller,
                        Vals(c.call).args[paramIndex(Funcs(c.fn).params, p.param)])

\* ------------------------------------------------------------------------
\* C13
\* ------------------------------------------------------------------------

\* C13: the frame created for a call through a closure holds the call's
\* actual arguments, and a formal parameter evaluated in it got the state
\* that the positionally matching actual argument has in the caller's frame.
C13_ClosureBindsArguments ==
  \A c \in trail.calls :
    Vals(c.call).mode = "MakeClosure" =>
      /\ c.args = Vals(c.call).args
      /\ \A p \in ParamsEvaluated(c.fn, c.args) :
           p.ret = StateIn(c.caller,
                           Vals(c.call).args[paramIndex(Funcs(c.fn).params, p.param)])

\* ------------------------------------------------------------------------
\* C14
\* ------------------------------------------------------------------------

\* C14 as stated: every evaluation of a pointer load yields the absent state
\* and reports nothing, and no reported trace ends in a load.
C14_LoadNeverReports ==
  /\ \A e \in trail.loads : e.ret.isnil /\ e.reported = <<>>
  /\ \A t \in Range(log) : ~IsKind(LastOf(t), "UnOp")

\* the alternatives of state p that are zero / non-zero and point to a zero
\* value / non-zero and do not
ZeroAlts(p) == {k \in 1..Len(p.alts) : p.alts[k].zero}

ToZeroAlts(p) == {k \in 1..Len(p.alts) : ~p.alts[k].zero /\ p.alts[k].toZero}

OtherAlts(p) == {k \in 1..Len(p.alts) : ~p.alts[k].zero /\ ~p.alts[k].toZero}

\* C14, amended: pointer loads are modelled.  A load whose operand's state is
\* absent yields the absent state and reports nothing.  Otherwise it reports
\* one trace ending in the load for each zero alternative of the operand, and
\* yields zero alternatives only: one for each non-zero alternative that
\* points to a zero value and two for each other non-zero alternative; its
\* state is absent when the operand has no non-zero alternative.
C14_LoadReportsZeroOperand ==
  \A e \in trail.loads :
    IF e.x.isnil THEN e.ret.isnil /\ e.reported = <<>>
    ELSE /\ Len(e.reported) = Cardinality(ZeroAlts(e.x))
         /\ \A t \in Range(e.reported) : LastOf(t) = e.v /\ t \in Range(log)
         /\ \A k \in 1..Len(e.ret.alts) : e.ret.alts[k].zero
         /\ Len(e.ret.alts) = Cardinality(ToZeroAlts(e.x)) + 2 * Cardinality(OtherAlts(e.x))
         /\ e.ret.isnil <=> e.ret.alts = <<>>

\* loads have been evaluated on an absent operand, on a nil operand (reported
\* from a call frame) and on an allocation (yielding a zero alternative)
C14_Witness ==
  /\ \E e \in trail.loads : e.x.isnil
  /\ \E e \in trail.loads : \E t \in Range(e.reported) : Len(t) = 2
  /\ \E e \in trail.loads : ~e.ret.isnil /\ e.reported = <<>>

\* ------------------------------------------------------------------------
\* C15
\* ------------------------------------------------------------------------

RECURSIVE Reach(_, _, _)
\* the nodes reached from the set s along the edges e in at most n more steps
Reach(e, s, n) ==
  IF n = 0 THEN s
  ELSE Reach(e, s \cup {w[2] : w \in {w \in e : w[1] \in s}}, n - 1)

\* no node lies on a cycle of the edges e
Acyclic(e, nodes) ==
  \A x \in nodes : x \notin Reach(e, {w[2] : w \in {w \in e : w[1] = x}}, Cardinality(nodes))

\* the static call graph: f calls g directly or through a closure
CallEdges ==
  UNION {{<<f, Vals(c).fn>> : c \in {c \in InstrsOf(f) : IsStaticCall(c)}} : f \in AllFunctions}

\* the control-flow graph of f
CFGEdges(f) ==
  UNION {{<<b, Funcs(f).blocks[b].succs[k]>> : k \in 1..Len(Funcs(f).blocks[b].succs)} :
           b \in BlocksOf(f)}

ProgramAcyclic ==
  /\ Acyclic(CallEdges, AllFunctions)
  /\ \A f \in AllFunctions : Acyclic(CFGEdges(f), BlocksOf(f))

\* C15: on a program whose call graph and control-flow graphs are acyclic,
\* every step of the driver that starts a seed evaluation ends with the
\* evaluation returned to the driver loop and one function fewer to visit,
\* and the step taken when none is left hands back the result list.
C15_SeedsReturn ==
  [][ProgramAcyclic =>
       (pc = "run" =>
          IF todo # {} THEN pc' = "run" /\ todo' \subseteq todo /\ todo' # todo
          ELSE pc' = "done" /\ npds' = npds)]_vars

\* ------------------------------------------------------------------------
\* C16
\* ------------------------------------------------------------------------

\* largest magnitude of the concrete integers compared against the flags
MaxInt == 2

Ints == (0 - MaxInt)..MaxInt

\* the value Go gives the comparison a op b of two integers
Compare(op, a, b) ==
  CASE op = "EQL" -> a = b
    [] op = "NEQ" -> a # b
    [] op = "LEQ" -> a <= b
    [] op = "GEQ" -> a >= b

\* integer a is consistent with the zero flag of alternative x
Consistent(x, a) == x.zero <=> a = 0

IsIntComparison(v) ==
  /\ IsKind(v, "BinOp") /\ Vals(v).op \in {"EQL", "NEQ", "LEQ", "GEQ"}
  /\ Vals(Vals(v).X).typ = "int" /\ Vals(Vals(v).Y).typ = "int"

\* C16: when a comparison of two integers, each with one alternative, was
\* evaluated to a single alternative, every pair of integers consistent with
\* the operands' zero flags compares to that boolean; and a conditional
\* terminator on a comparison of two integer constants has begun the
\* evaluation of the successor that the execution takes.
C16_ResolvedComparisonIsExact ==
  /\ \A e \in trail.binops :
       (IsIntComparison(e.v) /\ Len(e.xx.alts) = 1 /\ Len(e.yy.alts) = 1
          /\ Len(e.ret.alts) = 1) =>
         \A a, b \in Ints :
           (Consistent(e.xx.alts[1], a) /\ Consistent(e.yy.alts[1], b)) =>
             (Compare(Vals(e.v).op, a, b) <=> ~e.ret.alts[1].zero)
  /\ \A e \in trail.ifs :
       LET c == Vals(Vals(e.ctrl).X) IN
       (IsIntComparison(Vals(e.ctrl).X) /\ IsKind(c.X, "Const") /\ IsKind(c.Y, "Const")) =>
         (IF Compare(c.op, Vals(c.X).lit, Vals(c.Y).lit)
            THEN SuccsOf(e.ctrl)[1] ELSE SuccsOf(e.ctrl)[2]) \in Range(e.taken)

====
